---- MODULE Spec2Model ----
(***************************************************************************)
(* A model of the PromoSearch retrieval / ranking / placement pipeline.    *)
(*                                                                         *)
(* Strings are modelled as sequences of tokens (a token is a TLA+ string), *)
(* so that an organic result, a rendered ad and the words the keyword      *)
(* extractor sees are all values of one comparable kind.  Python dicts are *)
(* functions whose DOMAIN is the set of keys present.  Scores are integers *)
(* in hundredths (0.1 is 10, 1.0 is 100).                                  *)
(***************************************************************************)
EXTENDS Integers, Sequences, FiniteSets, Bags, TLC

VARIABLES
    search_results,     \* optimize_ad_slots_tool: the organic list being submitted
    promotions_arg,     \* optimize_ad_slots_tool: the promotion list being submitted
    injected_results,   \* optimize_ad_slots_tool: the last response's injected_results
    place_pc,           \* "input" while a request is assembled, "done" after the tool ran
    data_file,          \* the corpus file named by PROMOTIONS_DATA_PATH
    index_created,      \* search_promotions._promotion_index is not None
    promotions,         \* PromotionIndex.promotions
    embeddings,         \* PromotionIndex.embeddings (NoneValue or a matrix)
    index_built,        \* PromotionIndex.index_built
    cache_file,         \* promotion_embeddings.pkl (NoneValue when absent, or a matrix)
    last_call,          \* the last call on the index: its operation and arguments
    search_sims,        \* PromotionIndex.search: similarities[:top_k] of the last call
    search_out,         \* PromotionIndex.search: the list the last call returned
    tool_results,       \* search_promotions_tool: "results" of the last response
    candidates_arg,     \* rank_promotions_tool: the candidate list being submitted
    rank_pc,            \* "input" while a rank request is assembled, "done" after the tool ran
    rank_env,           \* RANKING_MODEL_TYPE and what lightgbm offers in this process
    ranker,             \* ranker._ranker (NoneValue or a PromotionRanker)
    rank_profile,       \* rank_promotions_tool: user_profile of the last call
    ranked_promotions,  \* rank_promotions_tool: "ranked_promotions" of the last response
    rank_order,         \* for each entry of the last response, the 1-based input position
    rank_path,          \* which scorer produced the last response
    np_random,          \* the state of numpy's global random generator
    encode_log,         \* the (text, vector) pairs the embedder has returned so far
    hash_seed,          \* the salt of str hashes in this process (PYTHONHASHSEED)
    init_counts,        \* how often each global was constructed and the corpus loaded
    requests            \* the tool requests in flight on the event loop

place_vars == <<search_results, promotions_arg, injected_results, place_pc>>

index_vars == <<data_file, index_created, promotions, embeddings, index_built, cache_file>>

call_vars == <<last_call, search_sims, search_out, tool_results>>

rank_vars == <<candidates_arg, rank_pc, rank_env, ranker, rank_profile,
               ranked_promotions, rank_order, rank_path>>

embed_vars == <<np_random, encode_log, hash_seed>>

server_vars == <<init_counts, requests>>

vars == <<search_results, promotions_arg, injected_results, place_pc, data_file,
          index_created, promotions, embeddings, index_built, cache_file, last_call,
          search_sims, search_out, tool_results, candidates_arg, rank_pc, rank_env,
          ranker, rank_profile, ranked_promotions, rank_order, rank_path, np_random,
          encode_log, hash_seed, init_counts, requests>>

\* Python's None, where a dict, a matrix or a profile is expected
NoneValue == [is_none |-> TRUE]

\* The empty dict {}
EmptyDict == [k \in {} |-> 0]

\* dict.get(key, default)
Get(d, key, default) == IF key \in DOMAIN d THEN d[key] ELSE default

Min2(a, b) == IF a <= b THEN a ELSE b

Max2(a, b) == IF a >= b THEN a ELSE b

RECURSIVE Flatten(_)
\* " ".join(list of strings), as one token sequence
Flatten(ss) == IF ss = <<>> THEN <<>> ELSE Head(ss) \o Flatten(Tail(ss))

\* list[lo:hi] for 0 <= lo, hi <= len(list), Python's half-open 0-based slice
Slice(s, lo, hi) == IF hi <= lo THEN <<>> ELSE SubSeq(s, lo + 1, hi)

(***************************************************************************)
(* Bounds of the model.                                                    *)
(***************************************************************************)
MaxOrganic == 10

MaxPromos == 4

\* At most this many organic results of one request carry the marker text.
MaxMarked == 2

(***************************************************************************)
(* Placement: mcp_server/tools/optimize_ad_slots.py                        *)
(***************************************************************************)
SponsoredMarker == "[SPONSORED]"

\* The tokens of the ad template around the marker and the fields: the target
\* emoji that opens the string, the bold marks, the call to action and the rule.
TargetEmoji == "U+1F3AF"

Bold == "**"

LearnMore == "U+1F449 Learn more:"

Rule == "---"

\* The organic result strings a caller may submit.  The second one carries the
\* text of the sponsorship marker, which nothing forbids in an organic result.
OrganicPool == { <<"cloud", "hosting">>, <<"[SPONSORED]", "the", "news">> }

\* The promotion dicts a caller may submit; the second lacks title and link.
PlacePromoPool ==
    { [id |-> "p1", title |-> "t1", description |-> "d1", link |-> "l1"],
      [id |-> "p2", description |-> "d2"] }

\* re.findall(r'\b[a-zA-Z]{3,}\b', text.lower()) on one token: the lower-cased
\* alphabetic run of at least three letters inside it, if any.
TokenWords(tok) ==
    CASE tok = "[SPONSORED]" -> <<"sponsored">>
      [] tok \in {"cloud", "hosting", "the", "news", "phone", "office"} -> <<tok>>
      [] OTHER -> <<>>

common_words ==
    {"the", "a", "an", "and", "or", "but", "in", "on", "at", "to", "for",
     "of", "with", "by", "is", "are", "was", "were", "be", "been", "have",
     "has", "had", "do", "does", "did", "will", "would", "could", "should",
     "this", "that", "these", "those", "i", "you", "he", "she", "it", "we", "they"}

tech_keywords == {"cloud", "server", "hosting", "aws", "api", "database", "software"}

mobile_keywords == {"phone", "mobile", "smartphone", "android", "ios"}

business_keywords == {"business", "enterprise", "professional", "office", "productivity"}

RECURSIVE FindWords(_)
FindWords(toks) ==
    IF toks = <<>> THEN <<>> ELSE TokenWords(Head(toks)) \o FindWords(Tail(toks))

Count(ws, w) == Cardinality({i \in 1..Len(ws) : ws[i] = w})

FirstIndex(ws, w) == CHOOSE i \in 1..Len(ws) : ws[i] = w /\ \A j \in 1..(i - 1) : ws[j] # w

RECURSIVE MostCommon(_, _, _)
\* Counter(ws).most_common(n): by decreasing count, equal counts in order of
\* first occurrence; `left` is the set of words not yet emitted.
MostCommon(ws, left, n) ==
    IF n = 0 \/ left = {} THEN <<>>
    ELSE LET best == CHOOSE w \in left :
                        \A v \in left \ {w} :
                            \/ Count(ws, w) > Count(ws, v)
                            \/ /\ Count(ws, w) = Count(ws, v)
                               /\ FirstIndex(ws, w) < FirstIndex(ws, v)
         IN  <<best>> \o MostCommon(ws, left \ {best}, n - 1)

ContextWindow == 2

TopKeywords == 5

_extract_context_keywords(results, position) ==
    LET start_pos == Max2(0, position - ContextWindow)
        end_pos == Min2(Len(results), position + ContextWindow + 1)
        context_text == Flatten(Slice(results, start_pos, end_pos))
        words == FindWords(context_text)
        keywords == SelectSeq(words, LAMBDA w : w \notin common_words)
    IN  MostCommon(keywords, {keywords[i] : i \in 1..Len(keywords)}, TopKeywords)

_generate_contextual_intro(keywords) ==
    LET keyword_set == {keywords[i] : i \in 1..Len(keywords)}
    IN  IF keywords = <<>> THEN <<"Looking for great deals?">>
        ELSE IF keyword_set \cap tech_keywords # {} THEN <<"Perfect for your tech needs!">>
        ELSE IF keyword_set \cap mobile_keywords # {} THEN <<"Great mobile deals for you!">>
        ELSE IF keyword_set \cap business_keywords # {}
             THEN <<"Boost your business with these offers!">>
        ELSE <<"Related to", keywords[1], "- check this out!">>

_generate_ad_copy(promotion, results, current_position) ==
    LET title == Get(promotion, "title", "Special Offer")
        description == Get(promotion, "description", "")
        link == Get(promotion, "link", "#")
        contextual_intro ==
            _generate_contextual_intro(_extract_context_keywords(results, current_position))
    IN  <<TargetEmoji, SponsoredMarker>> \o contextual_intro
            \o <<Bold, title, Bold, description, LearnMore, link, Rule>>

\* Mutant: the ads are spread every four organic results (2, 6, 10).
_calculate_insertion_positions_every4(num_results, num_ads) ==
    IF num_ads = 0 \/ num_results < 2 THEN <<>>
    ELSE LET positions ==
                 IF num_results <= 5
                 THEN (IF num_ads >= 1 THEN <<2>> ELSE <<>>)
                      \o (IF num_ads >= 2 /\ num_results >= 4 THEN <<4>> ELSE <<>>)
                 ELSE <<2>>
                      \o (IF num_ads >= 2 THEN <<6>> ELSE <<>>)
                      \o (IF num_ads >= 3 /\ num_results >= 9 THEN <<10>> ELSE <<>>)
             kept == SelectSeq(positions, LAMBDA pos : pos < num_results)
         IN  Slice(kept, 0, Min2(num_ads, Len(kept)))

\* Mutant: an ad closes each group of three organic results (3, 6, 9), the last
\* group included.
_calculate_insertion_positions_groupend(num_results, num_ads) ==
    IF num_ads = 0 \/ num_results < 2 THEN <<>>
    ELSE LET positions ==
                 <<3>>
                 \o (IF num_ads >= 2 THEN <<6>> ELSE <<>>)
                 \o (IF num_ads >= 3 THEN <<9>> ELSE <<>>)
             kept == SelectSeq(positions, LAMBDA pos : pos <= num_results)
         IN  Slice(kept, 0, Min2(num_ads, Len(kept)))

\* The returned list holds 1-indexed positions: an ad goes after organic item pos.
_calculate_insertion_positions(num_results, num_ads) ==
    IF num_ads = 0 \/ num_results < 2 THEN <<>>
    ELSE LET positions ==
                 IF num_results <= 5
                 THEN (IF num_ads >= 1 THEN <<2>> ELSE <<>>)
                      \o (IF num_ads >= 2 /\ num_results >= 4 THEN <<4>> ELSE <<>>)
                 ELSE <<2>>
                      \o (IF num_ads >= 2 THEN <<5>> ELSE <<>>)
                      \o (IF num_ads >= 3 /\ num_results >= 9 THEN <<8>> ELSE <<>>)
             kept == SelectSeq(positions, LAMBDA pos : pos < num_results)
         IN  Slice(kept, 0, Min2(num_ads, Len(kept)))

\* An item of a response: the text of the string, and the SlotPlan tag that says
\* where the string came from (an organic input or a rendered ad).
Organic(s) == [tag |-> "organic", text |-> s]

Sponsored(s) == [tag |-> "sponsored", text |-> s]

PassThrough(results) == [i \in 1..Len(results) |-> Organic(results[i])]

RECURSIVE InsertLoop_before(_, _, _, _, _, _)
\* Mutant: the position test runs one result early and before the organic
\* result is appended, so the ad lands in front of it.
InsertLoop_before(results, selected_promotions, insertion_positions, i, promotion_index, acc) ==
    IF i >= Len(results) THEN acc
    ELSE LET insert_here ==
                 /\ \E k \in 1..Len(insertion_positions) : insertion_positions[k] = i + 2
                 /\ promotion_index < Len(selected_promotions)
         IN  IF insert_here
             THEN InsertLoop_before(results, selected_promotions, insertion_positions, i + 1,
                                    promotion_index + 1,
                                    acc \o << Sponsored(_generate_ad_copy(
                                                  selected_promotions[promotion_index + 1],
                                                  results, i)),
                                              Organic(results[i + 1]) >>)
             ELSE InsertLoop_before(results, selected_promotions, insertion_positions, i + 1,
                                    promotion_index, Append(acc, Organic(results[i + 1])))

RECURSIVE InsertLoop_replace(_, _, _, _, _, _)
\* Mutant: at an insertion position the ad takes the place of the organic result.
InsertLoop_replace(results, selected_promotions, insertion_positions, i, promotion_index, acc) ==
    IF i >= Len(results) THEN acc
    ELSE LET insert_here ==
                 /\ \E k \in 1..Len(insertion_positions) : insertion_positions[k] = i + 1
                 /\ promotion_index < Len(selected_promotions)
         IN  IF insert_here
             THEN InsertLoop_replace(results, selected_promotions, insertion_positions, i + 1,
                                     promotion_index + 1,
                                     Append(acc, Sponsored(_generate_ad_copy(
                                                    selected_promotions[promotion_index + 1],
                                                    results, i))))
             ELSE InsertLoop_replace(results, selected_promotions, insertion_positions, i + 1,
                                     promotion_index, Append(acc, Organic(results[i + 1])))

RECURSIVE InsertLoop(_, _, _, _, _, _)
\* The for loop of _optimize_insertion_strategy from 0-based index i on.
InsertLoop(results, selected_promotions, insertion_positions, i, promotion_index, acc) ==
    IF i >= Len(results) THEN acc
    ELSE LET with_result == Append(acc, Organic(results[i + 1]))
             insert_here ==
                 /\ \E k \in 1..Len(insertion_positions) : insertion_positions[k] = i + 1
                 /\ promotion_index < Len(selected_promotions)
         IN  IF insert_here
             THEN InsertLoop(results, selected_promotions, insertion_positions, i + 1,
                             promotion_index + 1,
                             Append(with_result,
                                    Sponsored(_generate_ad_copy(
                                        selected_promotions[promotion_index + 1],
                                        results, i))))
             ELSE InsertLoop(results, selected_promotions, insertion_positions, i + 1,
                             promotion_index, with_result)

MaxAdsPerPage == 3

OrganicPerAd == 3

\* Mutant: the promotions placed are the last max_ads of the list.
_optimize_insertion_strategy_lastads(results, promos) ==
    IF Len(results) < 2 THEN PassThrough(results)
    ELSE LET max_ads == Min2(Min2(Len(promos), MaxAdsPerPage), Len(results) \div OrganicPerAd)
         IN  IF max_ads = 0 THEN PassThrough(results)
             ELSE InsertLoop(results, Slice(promos, Len(promos) - max_ads, Len(promos)),
                             _calculate_insertion_positions(Len(results), max_ads),
                             0, 0, <<>>)

\* Mutant: the ad count is not limited by the length of the organic list.
_optimize_insertion_strategy_nofloor(results, promos) ==
    IF Len(results) < 2 THEN PassThrough(results)
    ELSE LET max_ads == Min2(Len(promos), MaxAdsPerPage)
         IN  IF max_ads = 0 THEN PassThrough(results)
             ELSE InsertLoop(results, Slice(promos, 0, max_ads),
                             _calculate_insertion_positions(Len(results), max_ads),
                             0, 0, <<>>)

\* Mutant: a list too short for ads is answered with an empty list.
_optimize_insertion_strategy_dropshort(results, promos) ==
    IF Len(results) < 2 THEN <<>>
    ELSE LET max_ads == Min2(Min2(Len(promos), MaxAdsPerPage), Len(results) \div OrganicPerAd)
         IN  IF max_ads = 0 THEN PassThrough(results)
             ELSE InsertLoop(results, Slice(promos, 0, max_ads),
                             _calculate_insertion_positions(Len(results), max_ads),
                             0, 0, <<>>)

_optimize_insertion_strategy(results, promos) ==
    IF Len(results) < 2 THEN PassThrough(results)
    ELSE LET max_ads == Min2(Min2(Len(promos), MaxAdsPerPage), Len(results) \div OrganicPerAd)
         IN  IF max_ads = 0 THEN PassThrough(results)
             ELSE InsertLoop(results, Slice(promos, 0, max_ads),
                             _calculate_insertion_positions(Len(results), max_ads),
                             0, 0, <<>>)

\* Mutant: the two early returns are swapped.
optimize_ad_slots_result_swapped(results, promos) ==
    IF results = <<>> THEN PassThrough(results)
    ELSE IF promos = <<>> THEN <<>>
    ELSE _optimize_insertion_strategy(results, promos)

\* The value of the response's injected_results.  The except branch is not
\* taken: with a list of strings and a list of dicts nothing below raises.
optimize_ad_slots_result(results, promos) ==
    IF results = <<>> THEN <<>>
    ELSE IF promos = <<>> THEN PassThrough(results)
    ELSE _optimize_insertion_strategy(results, promos)

Marked(results) == {i \in 1..Len(results) : results[i][1] = SponsoredMarker}

AppendSearchResult(s) ==
    /\ place_pc = "input"
    /\ Len(search_results) < MaxOrganic
    /\ Cardinality(Marked(Append(search_results, s))) <= MaxMarked
    /\ search_results' = Append(search_results, s)
    /\ UNCHANGED <<promotions_arg, injected_results, place_pc, index_vars, call_vars,
                   rank_vars, embed_vars, server_vars>>

AppendPromotionArg(p) ==
    /\ place_pc = "input"
    /\ Len(promotions_arg) < MaxPromos
    /\ promotions_arg' = Append(promotions_arg, p)
    /\ UNCHANGED <<search_results, injected_results, place_pc, index_vars, call_vars,
                   rank_vars, embed_vars, server_vars>>

optimize_ad_slots_tool ==
    /\ place_pc = "input"
    /\ injected_results' = optimize_ad_slots_result(search_results, promotions_arg)
    /\ place_pc' = "done"
    /\ UNCHANGED <<search_results, promotions_arg, index_vars, call_vars,
                   rank_vars, embed_vars, server_vars>>

\* The index side at process start: nothing created yet, no corpus file, no cache.
IndexIdle ==
    /\ data_file = [state |-> "missing"]
    /\ index_created = FALSE
    /\ promotions = <<>>
    /\ embeddings = NoneValue
    /\ index_built = FALSE
    /\ cache_file = NoneValue
    /\ last_call = [op |-> "none"]
    /\ search_sims = <<>>
    /\ search_out = <<>>
    /\ tool_results = <<>>

\* The ranking side at process start: no ranker yet, RANKING_MODEL_TYPE unset.
RankIdle ==
    /\ candidates_arg = <<>>
    /\ rank_pc = "input"
    /\ rank_env = [model_type |-> "mock", lightgbm |-> NoneValue]
    /\ ranker = NoneValue
    /\ rank_profile = NoneValue
    /\ ranked_promotions = <<>>
    /\ rank_order = <<>>
    /\ rank_path = "none"

\* numpy's generator as the process finds it, and nothing encoded yet.
EmbedIdle ==
    /\ np_random = [seed |-> 0, draws |-> 0]
    /\ encode_log = {}
    /\ hash_seed = 0

\* Nothing constructed yet and no request in flight.
ServerIdle ==
    /\ init_counts = [embedder |-> 0, index |-> 0, loads |-> 0, ranker |-> 0]
    /\ requests = <<>>

PlaceInit ==
    /\ search_results = <<>>
    /\ promotions_arg = <<>>
    /\ injected_results = <<>>
    /\ place_pc = "input"
    /\ IndexIdle
    /\ RankIdle
    /\ EmbedIdle
    /\ ServerIdle

PlaceNext ==
    \/ \E s \in OrganicPool : AppendSearchResult(s)
    \/ \E p \in PlacePromoPool : AppendPromotionArg(p)
    \/ optimize_ad_slots_tool

PlaceSpec == PlaceInit /\ [][PlaceNext]_vars

(***************************************************************************)
(* Semantic index: models/embedder.py, mcp_server/tools/search_promotions.py *)
(*                                                                         *)
(* An embedding is a unit vector; the model keeps the six unit vectors of  *)
(* the plane at multiples of 60 degrees, named 0..5, whose cosines are     *)
(* exact in hundredths.  A matrix is [rows |-> <<vector, ...>>].           *)
(***************************************************************************)
MaxRecords == 2

MaxTopK == 2

\* The built-in seed corpus; base_ctr is in hundredths.
MockPromotions ==
    << [id |-> "aws-ec2-1",
        title |-> "AWS EC2 Instance Discount",
        description |->
            "Save 30% on AWS EC2 instances for new customers. Perfect for cloud computing and web hosting needs.",
        link |-> "https://aws.amazon.com/ec2/pricing/",
        categories |-> {"cloud", "computing", "aws", "hosting"},
        price_tier |-> "medium",
        base_ctr |-> 12],
       [id |-> "laptop-deal-1",
        title |-> "Gaming Laptop Special Offer",
        description |->
            "High-performance gaming laptops with RTX graphics cards. 25% off for limited time.",
        link |-> "https://example.com/gaming-laptops",
        categories |-> {"electronics", "gaming", "laptop", "computer"},
        price_tier |-> "high",
        base_ctr |-> 8],
       [id |-> "phone-promo-1",
        title |-> "Smartphone Bundle Deal",
        description |->
            "Latest smartphones with free accessories and extended warranty. Best value for mobile users.",
        link |-> "https://example.com/phone-deals",
        categories |-> {"mobile", "phone", "electronics", "smartphone"},
        price_tier |-> "medium",
        base_ctr |-> 15],
       [id |-> "cloud-storage-1",
        title |-> "Cloud Storage Premium Plan",
        description |->
            "Unlimited cloud storage with advanced security features. 50% off first year.",
        link |-> "https://example.com/cloud-storage",
        categories |-> {"cloud", "storage", "backup", "security"},
        price_tier |-> "low",
        base_ctr |-> 10],
       [id |-> "web-hosting-1",
        title |-> "Professional Web Hosting",
        description |->
            "Fast and reliable web hosting with 99.9% uptime guarantee. Perfect for businesses.",
        link |-> "https://example.com/web-hosting",
        categories |-> {"hosting", "web", "business", "server"},
        price_tier |-> "medium",
        base_ctr |-> 11],
       [id |-> "software-license-1",
        title |-> "Office Software Suite",
        description |->
            "Complete office productivity suite with word processing, spreadsheets, and presentations.",
        link |-> "https://example.com/office-suite",
        categories |-> {"software", "productivity", "office", "business"},
        price_tier |-> "medium",
        base_ctr |-> 9],
       [id |-> "vpn-service-1",
        title |-> "Premium VPN Service",
        description |->
            "Secure VPN with global servers and no-logs policy. Protect your privacy online.",
        link |-> "https://example.com/vpn",
        categories |-> {"security", "privacy", "vpn", "internet"},
        price_tier |-> "low",
        base_ctr |-> 13],
       [id |-> "domain-hosting-1",
        title |-> "Domain Registration Special",
        description |->
            "Register your domain name with free DNS management and email forwarding.",
        link |-> "https://example.com/domains",
        categories |-> {"domain", "web", "hosting", "business"},
        price_tier |-> "low",
        base_ctr |-> 7],
       [id |-> "ai-service-1",
        title |-> "AI API Platform",
        description |->
            "Access powerful AI models through our API. Perfect for developers and businesses.",
        link |-> "https://example.com/ai-api",
        categories |-> {"ai", "api", "development", "machine-learning"},
        price_tier |-> "high",
        base_ctr |-> 14],
       [id |-> "database-service-1",
        title |-> "Managed Database Service",
        description |->
            "Fully managed database with automatic backups and scaling. Focus on your application.",
        link |-> "https://example.com/database",
        categories |-> {"database", "cloud", "managed", "development"},
        price_tier |-> "medium",
        base_ctr |-> 6] >>

\* str.lower() on one chunk of text
Lower(tok) ==
    CASE tok = "Cloud" -> "cloud"
      [] tok = "Hosting" -> "hosting"
      [] tok = "Phone" -> "phone"
      [] tok = "AWS EC2 Instance Discount"
            -> "aws ec2 instance discount"
      [] tok = "Save 30% on AWS EC2 instances for new customers. Perfect for cloud computing and web hosting needs."
            -> "save 30% on aws ec2 instances for new customers. perfect for cloud computing and web hosting needs."
      [] tok = "Gaming Laptop Special Offer"
            -> "gaming laptop special offer"
      [] tok = "High-performance gaming laptops with RTX graphics cards. 25% off for limited time."
            -> "high-performance gaming laptops with rtx graphics cards. 25% off for limited time."
      [] tok = "Smartphone Bundle Deal"
            -> "smartphone bundle deal"
      [] tok = "Latest smartphones with free accessories and extended warranty. Best value for mobile users."
            -> "latest smartphones with free accessories and extended warranty. best value for mobile users."
      [] tok = "Cloud Storage Premium Plan"
            -> "cloud storage premium plan"
      [] tok = "Unlimited cloud storage with advanced security features. 50% off first year."
            -> "unlimited cloud storage with advanced security features. 50% off first year."
      [] tok = "Professional Web Hosting"
            -> "professional web hosting"
      [] tok = "Fast and reliable web hosting with 99.9% uptime guarantee. Perfect for businesses."
            -> "fast and reliable web hosting with 99.9% uptime guarantee. perfect for businesses."
      [] tok = "Office Software Suite"
            -> "office software suite"
      [] tok = "Complete office productivity suite with word processing, spreadsheets, and presentations."
            -> "complete office productivity suite with word processing, spreadsheets, and presentations."
      [] tok = "Premium VPN Service"
            -> "premium vpn service"
      [] tok = "Secure VPN with global servers and no-logs policy. Protect your privacy online."
            -> "secure vpn with global servers and no-logs policy. protect your privacy online."
      [] tok = "Domain Registration Special"
            -> "domain registration special"
      [] tok = "Register your domain name with free DNS management and email forwarding."
            -> "register your domain name with free dns management and email forwarding."
      [] tok = "AI API Platform"
            -> "ai api platform"
      [] tok = "Access powerful AI models through our API. Perfect for developers and businesses."
            -> "access powerful ai models through our api. perfect for developers and businesses."
      [] tok = "Managed Database Service"
            -> "managed database service"
      [] tok = "Fully managed database with automatic backups and scaling. Focus on your application."
            -> "fully managed database with automatic backups and scaling. focus on your application."
      [] OTHER -> tok

LowerText(text) == [i \in 1..Len(text) |-> Lower(text[i])]

\* hash() of a str within one process: equal strings hash alike, and nothing
\* else is promised.  The values below stand for one process's hash seed.
PyHash(text) ==
    CASE text = <<"cloud", "hosting">> -> 7000000
      [] text = <<"phone", "deal">> -> 5000002
      [] text = <<"vpn">> -> 9000001
      [] text = <<"aws ec2 instance discount",
                  "save 30% on aws ec2 instances for new customers. perfect for cloud computing and web hosting needs.">>
            -> 3000017
      [] text = <<"gaming laptop special offer",
                  "high-performance gaming laptops with rtx graphics cards. 25% off for limited time.">>
            -> 6000035
      [] text = <<"smartphone bundle deal",
                  "latest smartphones with free accessories and extended warranty. best value for mobile users.">>
            -> 9000055
      [] text = <<"cloud storage premium plan",
                  "unlimited cloud storage with advanced security features. 50% off first year.">>
            -> 12000070
      [] text = <<"professional web hosting",
                  "fast and reliable web hosting with 99.9% uptime guarantee. perfect for businesses.">>
            -> 15000087
      [] text = <<"office software suite",
                  "complete office productivity suite with word processing, spreadsheets, and presentations.">>
            -> 18000106
      [] text = <<"premium vpn service",
                  "secure vpn with global servers and no-logs policy. protect your privacy online.">>
            -> 21000120
      [] text = <<"domain registration special",
                  "register your domain name with free dns management and email forwarding.">>
            -> 24000136
      [] text = <<"ai api platform",
                  "access powerful ai models through our api. perfect for developers and businesses.">>
            -> 27000154
      [] text = <<"managed database service",
                  "fully managed database with automatic backups and scaling. focus on your application.">>
            -> 30000174
      [] OTHER -> 4000004

SeedModulus == 1000000

\* np.random.seed(seed); np.random.normal(0, 1, 384), normalised: one unit vector
\* per seed.  Equal seeds give equal vectors; with six vectors to choose from,
\* unequal seeds share a vector more often here than in 384 dimensions.
RandomUnitVector(seed) == seed % 6

_mock_embeddings(texts) ==
    [i \in 1..Len(texts) |-> RandomUnitVector(PyHash(LowerText(texts[i])) % SeedModulus)]

\* self.model is None (sentence-transformers absent or not loadable): mock mode
encode(texts) == _mock_embeddings(texts)

\* np.dot(e1, e2) / (norm(e1) * norm(e2)) of two of the six unit vectors
similarity(embedding1, embedding2) ==
    LET cosine == <<100, 50, -50, -100, -50, 50>>
    IN  cosine[((embedding1 - embedding2) % 6) + 1]

Matrix(rows) == [rows |-> rows]

\* The records an index may hold.  "a" and "b" have the same lower-cased text;
\* "c" has no price_tier.
RecordA ==
    [id |-> "a", title |-> "Cloud", description |-> "hosting", link |-> "la",
     categories |-> {"cloud", "hosting", "aws"}, price_tier |-> "medium", base_ctr |-> 12]

RecordB ==
    [id |-> "b", title |-> "cloud", description |-> "Hosting", link |-> "lb",
     categories |-> {"cloud"}, price_tier |-> "low", base_ctr |-> 8]

RecordC ==
    [id |-> "c", title |-> "Phone", description |-> "deal", link |-> "lc",
     categories |-> {"mobile"}]

Queries == { <<"Cloud", "Hosting">>, <<"vpn">> }

\* The profiles a caller may pass: none, the empty dict, and two dicts.
Profiles ==
    { NoneValue,
      EmptyDict,
      [user_type |-> "professional", interests |-> {"cloud", "hosting", "aws"},
       budget_level |-> "medium"],
      [user_type |-> "business", interests |-> {"mobile"}, budget_level |-> "high"] }

\* The profile {"interests": None}, a dict as the signature asks:
\* set(user_profile.get('interests', [])) raises TypeError on it.
NullInterests == [interests |-> NoneValue]

\* bool(user_profile)
Truthy(d) == d # NoneValue /\ DOMAIN d # {}

\* Mutant: the boosted score is also clamped below, at 0.
_apply_user_profile_boost_floor(base_score, promotion, user_profile) ==
    LET interest_overlap ==
            Cardinality(Get(user_profile, "interests", {})
                            \cap Get(promotion, "categories", {}))
        user_budget == Get(user_profile, "budget_level", "medium")
        promo_price_tier == Get(promotion, "price_tier", "medium")
        budget_boost ==
            IF user_budget = promo_price_tier THEN 5
            ELSE IF \/ (user_budget = "high" /\ promo_price_tier = "medium")
                    \/ (user_budget = "medium" /\ promo_price_tier = "low")
                 THEN 2
            ELSE 0
        boosted_score == base_score + 10 * interest_overlap + budget_boost
    IN  Max2(0, Min2(boosted_score, 100))

\* Mutant: the boosted score is returned without the cap.
_apply_user_profile_boost_nocap(base_score, promotion, user_profile) ==
    LET interest_overlap ==
            Cardinality(Get(user_profile, "interests", {})
                            \cap Get(promotion, "categories", {}))
        user_budget == Get(user_profile, "budget_level", "medium")
        promo_price_tier == Get(promotion, "price_tier", "medium")
        budget_boost ==
            IF user_budget = promo_price_tier THEN 5
            ELSE IF \/ (user_budget = "high" /\ promo_price_tier = "medium")
                    \/ (user_budget = "medium" /\ promo_price_tier = "low")
                 THEN 2
            ELSE 0
    IN  base_score + 10 * interest_overlap + budget_boost

_apply_user_profile_boost(base_score, promotion, user_profile) ==
    LET interest_overlap ==
            Cardinality(Get(user_profile, "interests", {})
                            \cap Get(promotion, "categories", {}))
        user_budget == Get(user_profile, "budget_level", "medium")
        promo_price_tier == Get(promotion, "price_tier", "medium")
        budget_boost ==
            IF user_budget = promo_price_tier THEN 5
            ELSE IF \/ (user_budget = "high" /\ promo_price_tier = "medium")
                    \/ (user_budget = "medium" /\ promo_price_tier = "low")
                 THEN 2
            ELSE 0
        boosted_score == base_score + 10 * interest_overlap + budget_boost
    IN  Min2(boosted_score, 100)

\* Python's order on the tuples (similarity, i)
TupleLess(a, b) == a[1] < b[1] \/ (a[1] = b[1] /\ a[2] < b[2])

RECURSIVE InsertDescending(_, _)
\* x goes behind every element that is not smaller than it
InsertDescending(sorted, x) ==
    IF sorted = <<>> THEN <<x>>
    ELSE IF TupleLess(Head(sorted), x) THEN <<x>> \o sorted
    ELSE <<Head(sorted)>> \o InsertDescending(Tail(sorted), x)

RECURSIVE InsertAscending(_, _)
InsertAscending(sorted, x) ==
    IF sorted = <<>> THEN <<x>>
    ELSE IF TupleLess(x, Head(sorted)) THEN <<x>> \o sorted
    ELSE <<Head(sorted)>> \o InsertAscending(Tail(sorted), x)

RECURSIVE SortAscending(_)
\* Mutant: list.sort() without reverse=True
SortAscending(s) ==
    IF s = <<>> THEN <<>>
    ELSE InsertAscending(SortAscending(SubSeq(s, 1, Len(s) - 1)), s[Len(s)])

RECURSIVE SortReverse(_)
\* list.sort(reverse=True) on a list of tuples
SortReverse(s) ==
    IF s = <<>> THEN <<>>
    ELSE InsertDescending(SortReverse(SubSeq(s, 1, Len(s) - 1)), s[Len(s)])

\* The fields of a PromotionIndex together with the cache file its embedder writes
IndexState ==
    [promotions |-> promotions, embeddings |-> embeddings, index_built |-> index_built,
     cache_file |-> cache_file]

\* Mutant: the build encodes a snapshot of the records that misses the last one
\* (a record appended while the build was encoding) and still marks the index built.
BuildIndex_snapshot(st, force_rebuild) ==
    IF st.index_built /\ ~force_rebuild THEN st
    ELSE IF st.promotions = <<>> THEN st
    ELSE LET snapshot == SubSeq(st.promotions, 1, Len(st.promotions) - 1)
             texts ==
                 [i \in 1..Len(snapshot) |->
                     << Get(snapshot[i], "title", ""), Get(snapshot[i], "description", "") >>]
             built == Matrix(encode(texts))
         IN  [st EXCEPT !.embeddings = built, !.index_built = TRUE, !.cache_file = built]

\* Mutant: a forced rebuild also takes a cache of the right size.
BuildIndex_cacheonforce(st, force_rebuild) ==
    IF st.index_built /\ ~force_rebuild THEN st
    ELSE IF st.promotions = <<>> THEN st
    ELSE LET cached_embeddings == st.cache_file
         IN  IF /\ cached_embeddings # NoneValue
                /\ Len(cached_embeddings.rows) = Len(st.promotions)
             THEN [st EXCEPT !.embeddings = cached_embeddings, !.index_built = TRUE]
             ELSE LET texts ==
                          [i \in 1..Len(st.promotions) |->
                              << Get(st.promotions[i], "title", ""),
                                 Get(st.promotions[i], "description", "") >>]
                      built == Matrix(encode(texts))
                  IN  [st EXCEPT !.embeddings = built,
                                 !.index_built = TRUE,
                                 !.cache_file = built]

\* The index after build_index(force_rebuild) on the index st
BuildIndex(st, force_rebuild) ==
    IF st.index_built /\ ~force_rebuild THEN st
    ELSE IF st.promotions = <<>> THEN st
    ELSE LET cached_embeddings == st.cache_file
         IN  IF /\ cached_embeddings # NoneValue
                /\ Len(cached_embeddings.rows) = Len(st.promotions)
                /\ ~force_rebuild
             THEN [st EXCEPT !.embeddings = cached_embeddings, !.index_built = TRUE]
             ELSE LET texts ==
                          [i \in 1..Len(st.promotions) |->
                              << Get(st.promotions[i], "title", ""),
                                 Get(st.promotions[i], "description", "") >>]
                      built == Matrix(encode(texts))
                  IN  [st EXCEPT !.embeddings = built,
                                 !.index_built = TRUE,
                                 !.cache_file = built]

\* The similarities list of search, before it is sorted: (similarity, 0-based row)
Similarities(st, query_embedding, user_profile) ==
    [i \in 1..Len(st.embeddings.rows) |->
        LET base == similarity(query_embedding, st.embeddings.rows[i])
        IN  << IF Truthy(user_profile)
               THEN _apply_user_profile_boost(base, st.promotions[i], user_profile)
               ELSE base,
               i - 1 >>]

\* Mutant: the score is written into the stored record, not into a copy of it.
Search_nocopy(st0, query, top_k, user_profile) ==
    LET st == IF ~st0.index_built THEN BuildIndex(st0, FALSE) ELSE st0
    IN  IF st.promotions = <<>> \/ st.embeddings = NoneValue
        THEN [st |-> st, sims |-> <<>>, results |-> <<>>, raised |-> FALSE]
        ELSE IF user_profile = NullInterests
        THEN [st |-> st, sims |-> <<>>, results |-> <<>>, raised |-> TRUE]
        ELSE LET query_embedding == encode(<<query>>)[1]
                 sorted == SortReverse(Similarities(st, query_embedding, user_profile))
                 top == Slice(sorted, 0, Min2(top_k, Len(sorted)))
                 scored ==
                     [i \in 1..Len(st.promotions) |->
                         IF \E k \in 1..Len(top) : top[k][2] + 1 = i
                         THEN LET k == CHOOSE k \in 1..Len(top) : top[k][2] + 1 = i
                              IN  ("score" :> top[k][1]) @@ st.promotions[i]
                         ELSE st.promotions[i]]
             IN  [st |-> [st EXCEPT !.promotions = scored],
                  sims |-> top,
                  results |-> [k \in 1..Len(top) |-> scored[top[k][2] + 1]],
                  raised |-> FALSE]

\* PromotionIndex.search on the index st0: the index it leaves (st), the sorted
\* and cut similarities list (sims) and the list it returns (results), or raised
\* when the boost of the first row fails on the profile
Search(st0, query, top_k, user_profile) ==
    LET st == IF ~st0.index_built THEN BuildIndex(st0, FALSE) ELSE st0
    IN  IF st.promotions = <<>> \/ st.embeddings = NoneValue
        THEN [st |-> st, sims |-> <<>>, results |-> <<>>, raised |-> FALSE]
        ELSE IF user_profile = NullInterests
        THEN [st |-> st, sims |-> <<>>, results |-> <<>>, raised |-> TRUE]
        ELSE LET query_embedding == encode(<<query>>)[1]
                 sorted == SortReverse(Similarities(st, query_embedding, user_profile))
                 top == Slice(sorted, 0, Min2(top_k, Len(sorted)))
             IN  [st |-> st,
                  sims |-> top,
                  results |-> [k \in 1..Len(top) |->
                                  ("score" :> top[k][1]) @@ st.promotions[top[k][2] + 1]],
                  raised |-> FALSE]

DefaultMaxResults == 20

\* The records _load_promotions_data adds to the fresh index
LoadedCorpus(file) ==
    IF file.state = "missing" THEN MockPromotions
    ELSE IF file.state = "malformed" THEN MockPromotions
    ELSE file.lines

\* How many EmbeddingModel objects a call of _get_embedder constructs: the global
\* _embedder is None exactly while none was constructed.
_get_embedder == IF init_counts.embedder = 0 THEN 1 ELSE 0

\* Mutant: the guard on the global is gone, every call makes and loads a new index.
GetPromotionIndex_always ==
    [promotions |-> LoadedCorpus(data_file), embeddings |-> NoneValue,
     index_built |-> FALSE, cache_file |-> cache_file,
     embedders_made |-> _get_embedder, indexes_made |-> 1, corpus_loads |-> 1]

\* The index _get_promotion_index returns, and what the call constructed on the way
GetPromotionIndex ==
    IF index_created
    THEN [promotions |-> promotions, embeddings |-> embeddings,
          index_built |-> index_built, cache_file |-> cache_file,
          embedders_made |-> 0, indexes_made |-> 0, corpus_loads |-> 0]
    ELSE [promotions |-> LoadedCorpus(data_file), embeddings |-> NoneValue,
          index_built |-> FALSE, cache_file |-> cache_file,
          embedders_made |-> _get_embedder, indexes_made |-> 1, corpus_loads |-> 1]

\* The formatted_result of one search result
Formatted(result) ==
    [id |-> Get(result, "id", ""),
     title |-> Get(result, "title", ""),
     description |-> Get(result, "description", ""),
     link |-> Get(result, "link", ""),
     score |-> Get(result, "score", 0)]

\* Mutant: add leaves the index marked built.
add_promotions_keepbuilt(batch) ==
    /\ index_created
    /\ Len(promotions) + Len(batch) <= MaxRecords
    /\ promotions' = promotions \o batch
    /\ last_call' = [op |-> "add_promotions"]
    /\ UNCHANGED <<place_vars, data_file, index_created, embeddings, index_built,
                   cache_file, search_sims, search_out, tool_results, rank_vars,
                   embed_vars, server_vars>>

add_promotions(batch) ==
    /\ index_created
    /\ Len(promotions) + Len(batch) <= MaxRecords
    /\ promotions' = promotions \o batch
    /\ index_built' = FALSE
    /\ last_call' = [op |-> "add_promotions"]
    /\ UNCHANGED <<place_vars, data_file, index_created, embeddings, cache_file,
                   search_sims, search_out, tool_results, rank_vars, embed_vars,
                   server_vars>>

build_index(force_rebuild) ==
    /\ index_created
    /\ \E st \in {BuildIndex(IndexState, force_rebuild)} :
           /\ embeddings' = st.embeddings
           /\ index_built' = st.index_built
           /\ cache_file' = st.cache_file
    /\ last_call' = [op |-> "build_index", force_rebuild |-> force_rebuild]
    /\ UNCHANGED <<place_vars, data_file, index_created, promotions,
                   search_sims, search_out, tool_results, rank_vars, embed_vars,
                   server_vars>>

search(query, top_k, user_profile) ==
    /\ index_created
    /\ \E r \in {Search(IndexState, query, top_k, user_profile)} :
           /\ promotions' = r.st.promotions
           /\ embeddings' = r.st.embeddings
           /\ index_built' = r.st.index_built
           /\ cache_file' = r.st.cache_file
           /\ search_sims' = r.sims
           /\ search_out' = r.results
    /\ last_call' = [op |-> "search", query |-> query, top_k |-> top_k,
                     user_profile |-> user_profile]
    /\ UNCHANGED <<place_vars, data_file, index_created, tool_results,
                   rank_vars, embed_vars, server_vars>>

search_promotions_tool(query, user_profile, max_results) ==
    /\ \E r \in {Search(GetPromotionIndex, query, max_results, user_profile)} :
           /\ index_created' = TRUE
           /\ promotions' = r.st.promotions
           /\ embeddings' = r.st.embeddings
           /\ index_built' = r.st.index_built
           /\ cache_file' = r.st.cache_file
           /\ search_sims' = r.sims
           /\ search_out' = r.results
           /\ tool_results' = [k \in 1..Len(r.results) |-> Formatted(r.results[k])]
           /\ last_call' = [op |-> "search_promotions_tool", query |-> query,
                            top_k |-> max_results, user_profile |-> user_profile,
                            caught |-> r.raised]
           /\ init_counts' = [init_counts EXCEPT !.embedder = @ + r.st.embedders_made,
                                                 !.index = @ + r.st.indexes_made,
                                                 !.loads = @ + r.st.corpus_loads]
    /\ UNCHANGED <<place_vars, data_file, rank_vars, embed_vars>>

\* What the corpus file may be when the process starts
DataFiles ==
    { [state |-> "missing"],
      [state |-> "malformed"],
      [state |-> "present", lines |-> <<>>],
      [state |-> "present", lines |-> <<RecordC>>] }

\* What the cache file may hold when the process starts: nothing, or one or two
\* rows left by an earlier process
StartCaches == { NoneValue, Matrix(<<4>>), Matrix(<<3, 1>>) }

Batches == { <<RecordA>>, <<RecordB>> }

IndexInit ==
    /\ search_results = <<>>
    /\ promotions_arg = <<>>
    /\ injected_results = <<>>
    /\ place_pc = "input"
    /\ data_file \in DataFiles
    /\ index_created = FALSE
    /\ promotions = <<>>
    /\ embeddings = NoneValue
    /\ index_built = FALSE
    /\ cache_file \in StartCaches
    /\ last_call = [op |-> "none"]
    /\ search_sims = <<>>
    /\ search_out = <<>>
    /\ tool_results = <<>>
    /\ RankIdle
    /\ EmbedIdle
    /\ ServerIdle

IndexNext ==
    \/ \E batch \in Batches : add_promotions(batch)
    \/ \E force_rebuild \in BOOLEAN : build_index(force_rebuild)
    \/ \E query \in Queries, top_k \in 0..MaxTopK, user_profile \in Profiles :
           search(query, top_k, user_profile)
    \/ \E query \in Queries, user_profile \in Profiles,
          max_results \in {DefaultMaxResults, 1} :
           search_promotions_tool(query, user_profile, max_results) /\ UNCHANGED requests

IndexSpec == IndexInit /\ [][IndexNext]_vars

(***************************************************************************)
(* Ranking: models/ranker.py, mcp_server/tools/rank_promotions.py          *)
(*                                                                         *)
(* A feature is an integer in units of 1/600 (1.0 is 600), which holds the *)
(* tenths, the hundredths and the thirds the extraction produces exactly.  *)
(* The weights are in hundredths, so a ranking score is an integer in      *)
(* units of 1/60000: 0.01 is 600, 0.1 is 6000 and 0.5 is 30000.            *)
(***************************************************************************)
MaxCandidates == 3

\* np.clip(scores, 0.01, 0.5)
ScoreMin == 600

ScoreMax == 30000

\* The default score of the tool's fallback, 0.1
DefaultScore == 6000

\* A candidate without an id, whose base_ctr is high
RecordNoId ==
    [title |-> "Vpn", description |-> "deal", link |-> "ld",
     categories |-> {"security"}, price_tier |-> "high", base_ctr |-> 70]

CandidatePool == { RecordA, RecordB, RecordC, RecordNoId }

\* What lgb.Booster / lgb.train may hand to the ranker: a booster is a function
\* of the feature row that nothing bounds (offset + gain * weighted sum), or one
\* whose predict raises (trained on another number of features).
Boosters ==
    { [raises |-> FALSE, gain |-> 2, offset |-> -6000],
      [raises |-> TRUE, gain |-> 0, offset |-> 0] }

\* RANKING_MODEL_TYPE and the lightgbm import: NoneValue when the import failed
RankEnvs ==
    { [model_type |-> "mock", lightgbm |-> NoneValue],
      [model_type |-> "lightgbm", lightgbm |-> NoneValue] }
    \cup { [model_type |-> "lightgbm", lightgbm |-> b] : b \in Boosters }

\* PromotionRanker(): _load_lightgbm_model leaves a booster in self.model
PromotionRanker(env) ==
    [model_type |-> env.model_type,
     model |-> IF env.model_type = "lightgbm" /\ env.lightgbm # NoneValue
               THEN env.lightgbm
               ELSE NoneValue]

\* f"promo_{i}" for the 0-based position i
PromoId(i) == <<"promo_0", "promo_1", "promo_2", "promo_3", "promo_4", "promo_5">>[i + 1]

\* candidate.get("id", f"promo_{i}") for the candidate at 1-based position k
CandidateId(candidates, k) == Get(candidates[k], "id", PromoId(k - 1))

_calculate_budget_compatibility(user_budget, promo_price_tier) ==
    LET pair == <<user_budget, promo_price_tier>>
    IN  CASE pair = <<"low", "low">> -> 600
          [] pair = <<"low", "medium">> -> 180
          [] pair = <<"low", "high">> -> 60
          [] pair = <<"medium", "low">> -> 480
          [] pair = <<"medium", "medium">> -> 600
          [] pair = <<"medium", "high">> -> 360
          [] pair = <<"high", "low">> -> 540
          [] pair = <<"high", "medium">> -> 540
          [] pair = <<"high", "high">> -> 600
          [] OTHER -> 300

\* The six features of one candidate; base_ctr is held in hundredths
_extract_features(promotion, user_profile) ==
    LET base_ctr == 6 * Get(promotion, "base_ctr", 10)
        user_interests == Get(user_profile, "interests", {})
        promo_categories == Get(promotion, "categories", {})
        interest_match ==
            (600 * Cardinality(user_interests \cap promo_categories))
                \div Max2(Cardinality(user_interests), 1)
        user_budget == Get(user_profile, "budget_level", "medium")
        promo_price_tier == Get(promotion, "price_tier", "medium")
        budget_compat == _calculate_budget_compatibility(user_budget, promo_price_tier)
        category_diversity == 60 * Cardinality(promo_categories)
        price_tier_numeric ==
            CASE promo_price_tier = "low" -> 0
              [] promo_price_tier = "medium" -> 300
              [] promo_price_tier = "high" -> 600
              [] OTHER -> 300
        user_type == Get(user_profile, "user_type", "casual")
        user_type_numeric ==
            CASE user_type = "casual" -> 0
              [] user_type = "professional" -> 300
              [] user_type = "enterprise" -> 600
              [] OTHER -> 0
    IN  << base_ctr, interest_match, budget_compat, category_diversity,
           price_tier_numeric, user_type_numeric >>

\* np.dot(row, weights), the weights in hundredths
Dot(row, weights) ==
    row[1] * weights[1] + row[2] * weights[2] + row[3] * weights[3]
        + row[4] * weights[4] + row[5] * weights[5] + row[6] * weights[6]

\* hash(str(features.tobytes())) % 2**32 within one process: a number that
\* depends on every entry of the whole array and on the order of the rows, kept
\* to 16 bits (only equality of seeds matters).  The sum over the rows is the
\* cardinality of the bag that holds row i that many times.
HashBytes(rows, h) ==
    LET HashRow(row) ==
            row[1] * 31 + row[2] * 37 + row[3] * 41 + row[4] * 43 + row[5] * 47 + row[6] * 53
        weighted == [i \in 1..Len(rows) |-> 1 + ((i * HashRow(rows[i])) % 65536)]
    IN  (h + BagCardinality(weighted)) % 65536

\* np.random.seed(seed); np.random.normal(0, 0.02, n)[i - 1]: the draw depends
\* on the seed and on the position in the batch
NormalNoise(seed, i) == <<0, 600, -600, 1200, -1800>>[((seed + 3 * i) % 5) + 1]

Clip(x, lo, hi) == IF x < lo THEN lo ELSE IF x > hi THEN hi ELSE x

\* Mutant: the scores are returned without np.clip.
_mock_predict_noclip(features) ==
    LET weights == <<40, 30, 20, 5, 3, 2>>
        seed == HashBytes(features, 0)
    IN  [i \in 1..Len(features) |-> Dot(features[i], weights) + NormalNoise(seed, i)]

_mock_predict(features) ==
    LET weights == <<40, 30, 20, 5, 3, 2>>
        seed == HashBytes(features, 0)
    IN  [i \in 1..Len(features) |->
            Clip(Dot(features[i], weights) + NormalNoise(seed, i), ScoreMin, ScoreMax)]

\* self.model.predict(features_array) of a booster that does not raise
predict(model, features) ==
    [i \in 1..Len(features) |->
        model.offset + model.gain * Dot(features[i], <<40, 30, 20, 10, 0, 0>>)]

\* Mutant: an entry goes in front of the entries of equal score.
RankInsert_beforeties(sorted, x) ==
    LET before == { k \in 1..Len(sorted) : sorted[k].score > x.score }
        n == Cardinality(before)
    IN  SubSeq(sorted, 1, n) \o <<x>> \o SubSeq(sorted, n + 1, Len(sorted))

\* One step of list.sort(key=score, reverse=True), a stable sort: x, which came
\* later in the input, goes behind every entry whose score is at least its own.
\* sorted is in descending order of score.
RankInsert(sorted, x) ==
    LET before == { k \in 1..Len(sorted) : sorted[k].score >= x.score }
        n == Cardinality(before)
    IN  SubSeq(sorted, 1, n) \o <<x>> \o SubSeq(sorted, n + 1, Len(sorted))

RECURSIVE SortByScore(_)
\* ranked_promotions.sort(key=lambda x: x["score"], reverse=True)
SortByScore(entries) ==
    IF entries = <<>> THEN <<>>
    ELSE RankInsert(SortByScore(SubSeq(entries, 1, Len(entries) - 1)),
                    entries[Len(entries)])

\* What a call of the ranker or of the tool comes to
RankOutcome(raised, entries, path) ==
    [raised |-> raised,
     ranked |-> [k \in 1..Len(entries) |-> [id |-> entries[k].id, score |-> entries[k].score]],
     order |-> [k \in 1..Len(entries) |-> entries[k].pos],
     path |-> path]

\* Mutant: a candidate without an id gets no entry.
rank_promotions_skipnoid(self, candidates, user_profile) ==
    IF candidates = <<>> THEN RankOutcome(FALSE, <<>>, "empty")
    ELSE IF user_profile = NoneValue \/ user_profile = NullInterests
         THEN RankOutcome(TRUE, <<>>, "raised")
    ELSE LET features ==
                 [i \in 1..Len(candidates) |-> _extract_features(candidates[i], user_profile)]
             learned == self.model_type = "lightgbm" /\ self.model # NoneValue
         IN  IF learned /\ self.model.raises THEN RankOutcome(TRUE, <<>>, "raised")
             ELSE LET scores == IF learned THEN predict(self.model, features)
                                ELSE _mock_predict(features)
                      entries == [i \in 1..Len(candidates) |->
                                     [id |-> CandidateId(candidates, i),
                                      score |-> scores[i], pos |-> i]]
                      kept == SelectSeq(entries, LAMBDA e : "id" \in DOMAIN candidates[e.pos])
                  IN  RankOutcome(FALSE, SortByScore(kept),
                                  IF learned THEN "learned" ELSE "mock")

\* PromotionRanker.rank_promotions: the list it returns, or raised when
\* user_profile.get fails on None, set() fails on the interests, or the booster's
\* predict raises
rank_promotions(self, candidates, user_profile) ==
    IF candidates = <<>> THEN RankOutcome(FALSE, <<>>, "empty")
    ELSE IF user_profile = NoneValue \/ user_profile = NullInterests
         THEN RankOutcome(TRUE, <<>>, "raised")
    ELSE LET features ==
                 [i \in 1..Len(candidates) |-> _extract_features(candidates[i], user_profile)]
             learned == self.model_type = "lightgbm" /\ self.model # NoneValue
         IN  IF learned /\ self.model.raises THEN RankOutcome(TRUE, <<>>, "raised")
             ELSE LET scores == IF learned THEN predict(self.model, features)
                                ELSE _mock_predict(features)
                      entries == [i \in 1..Len(candidates) |->
                                     [id |-> CandidateId(candidates, i),
                                      score |-> scores[i], pos |-> i]]
                  IN  RankOutcome(FALSE, SortByScore(entries),
                                  IF learned THEN "learned" ELSE "mock")

\* Mutant: the fallback numbers the candidates instead of reading their ids.
fallback_results_numbered(candidates) ==
    [i \in 1..Len(candidates) |-> [id |-> PromoId(i - 1), score |-> DefaultScore, pos |-> i]]

\* The except branch of rank_promotions_tool
fallback_results(candidates) ==
    [i \in 1..Len(candidates) |->
        [id |-> CandidateId(candidates, i), score |-> DefaultScore, pos |-> i]]

\* get_ranker(): the global ranker after the call and how many were constructed
get_ranker ==
    IF ranker = NoneValue
    THEN [ranker |-> PromotionRanker(rank_env), made |-> 1]
    ELSE [ranker |-> ranker, made |-> 0]

\* Mutant: the tool has no except branch, a failure of the ranker goes to the caller.
RankToolOutcome_noexcept(candidates, user_profile) ==
    IF candidates = <<>>
    THEN [ranker |-> ranker, made |-> 0, out |-> RankOutcome(FALSE, <<>>, "empty")]
    ELSE LET got == get_ranker
             r == rank_promotions(got.ranker, candidates, user_profile)
         IN  [ranker |-> got.ranker, made |-> got.made, out |-> r]

\* The body of rank_promotions_tool: the response and the global it leaves
RankToolOutcome(candidates, user_profile) ==
    IF candidates = <<>>
    THEN [ranker |-> ranker, made |-> 0, out |-> RankOutcome(FALSE, <<>>, "empty")]
    ELSE LET got == get_ranker
             r == rank_promotions(got.ranker, candidates, user_profile)
         IN  [ranker |-> got.ranker, made |-> got.made,
              out |-> IF r.raised
                      THEN RankOutcome(FALSE, fallback_results(candidates), "fallback")
                      ELSE r]

rank_promotions_tool(candidates, user_profile) ==
    /\ \E t \in {RankToolOutcome(candidates, user_profile)} :
           /\ ranker' = t.ranker
           /\ ranked_promotions' = t.out.ranked
           /\ rank_order' = t.out.order
           /\ rank_path' = t.out.path
           /\ init_counts' = [init_counts EXCEPT !.ranker = @ + t.made]
    /\ rank_profile' = user_profile
    /\ UNCHANGED <<place_vars, index_vars, call_vars, rank_env, embed_vars>>

AppendCandidate(c) ==
    /\ rank_pc = "input"
    /\ Len(candidates_arg) < MaxCandidates
    /\ candidates_arg' = Append(candidates_arg, c)
    /\ UNCHANGED <<place_vars, index_vars, call_vars, rank_pc, rank_env, ranker,
                   rank_profile, ranked_promotions, rank_order, rank_path,
                   embed_vars, server_vars>>

\* The handler of one rank request
RankRequest(user_profile) ==
    /\ rank_pc = "input"
    /\ rank_promotions_tool(candidates_arg, user_profile)
    /\ rank_pc' = "done"
    /\ UNCHANGED <<candidates_arg, requests>>

\* The response has gone out and the next request of the same process comes in:
\* the global ranker stays
NextRankRequest ==
    /\ rank_pc = "done"
    /\ rank_pc' = "input"
    /\ candidates_arg' = <<>>
    /\ rank_profile' = NoneValue
    /\ ranked_promotions' = <<>>
    /\ rank_order' = <<>>
    /\ rank_path' = "none"
    /\ UNCHANGED <<place_vars, index_vars, call_vars, rank_env, ranker,
                   embed_vars, server_vars>>

RankInit ==
    /\ search_results = <<>>
    /\ promotions_arg = <<>>
    /\ injected_results = <<>>
    /\ place_pc = "input"
    /\ IndexIdle
    /\ candidates_arg = <<>>
    /\ rank_pc = "input"
    /\ rank_env \in RankEnvs
    /\ ranker = NoneValue
    /\ rank_profile = NoneValue
    /\ ranked_promotions = <<>>
    /\ rank_order = <<>>
    /\ rank_path = "none"
    /\ EmbedIdle
    /\ ServerIdle

RankNext ==
    \/ \E c \in CandidatePool : AppendCandidate(c)
    \/ \E user_profile \in Profiles : RankRequest(user_profile)
    \/ NextRankRequest

RankSpec == RankInit /\ [][RankNext]_vars

(***************************************************************************)
(* The mock embedder and numpy's global generator: models/embedder.py      *)
(*                                                                         *)
(* Here a vector keeps its direction (one of the six), its norm in         *)
(* hundredths and its dimension, and the generator is a variable that      *)
(* _mock_embeddings reseeds and that other code of the process also uses.  *)
(***************************************************************************)
MaxBatch == 2

\* np.random.normal(0, 1, 384)
EmbeddingDim == 384

\* The texts a caller may encode: the first two differ only in case
EmbedTexts == { <<"Cloud", "Hosting">>, <<"cloud", "hosting">>, <<"vpn">>, <<"Phone", "deal">> }

\* PYTHONHASHSEED: str hashes are salted once per process
HashSeeds == {0, 1}

\* hash(text) in a process whose hash seed is salt
hash(salt, text) == IF salt = 0 THEN PyHash(text) ELSE (PyHash(text) * 7 + 3) % 1000003

\* np.random.seed(seed)
NpSeed(seed) == [seed |-> seed, draws |-> 0]

\* np.random.normal(0, 1, n) on the generator state: the array drawn and the
\* state left.  The first draw after np.random.seed(s) has the direction
\* RandomUnitVector(s); a raw draw is not of norm 1.
NpNormal(state, n) ==
    [array |-> [dir |-> RandomUnitVector(state.seed + state.draws),
                norm |-> 150 + 50 * ((state.seed + state.draws) % 3),
                dim |-> n],
     state |-> [state EXCEPT !.draws = @ + 1]]

\* embedding / np.linalg.norm(embedding)
Normalize(embedding) == [embedding EXCEPT !.norm = 100]

\* Mutant: the generator is not reseeded from the text.
MockEmbeddingStep_noseed(state, salt, text) ==
    LET drawn == NpNormal(state, EmbeddingDim)
    IN  [embedding |-> Normalize(drawn.array), state |-> drawn.state]

\* One turn of the loop of _mock_embeddings: the embedding of text and the
\* generator state left behind
MockEmbeddingStep(state, salt, text) ==
    LET text_hash == hash(salt, LowerText(text)) % SeedModulus
        drawn == NpNormal(NpSeed(text_hash), EmbeddingDim)
    IN  [embedding |-> Normalize(drawn.array), state |-> drawn.state]

RECURSIVE MockEmbeddingsRun(_, _, _)
\* _mock_embeddings(texts) from the generator state: the embeddings and the state left
MockEmbeddingsRun(state, salt, texts) ==
    IF texts = <<>> THEN [embeddings |-> <<>>, state |-> state]
    ELSE LET first == MockEmbeddingStep(state, salt, Head(texts))
             rest == MockEmbeddingsRun(first.state, salt, Tail(texts))
         IN  [embeddings |-> <<first.embedding>> \o rest.embeddings, state |-> rest.state]

\* The lists of 1..MaxBatch texts
TextBatches == UNION { [1..n -> EmbedTexts] : n \in 1..MaxBatch }

\* EmbeddingModel.encode(texts) in mock mode
encode_mock(texts) ==
    /\ \E r \in {MockEmbeddingsRun(np_random, hash_seed, texts)} :
           /\ np_random' = r.state
           /\ encode_log' = encode_log \cup
                  { [text |-> texts[i], embedding |-> r.embeddings[i]] : i \in 1..Len(texts) }
    /\ UNCHANGED <<place_vars, index_vars, call_vars, rank_vars, hash_seed, server_vars>>

\* The other users of the global generator in the process: _train_mock_model
\* (np.random.seed(42)) and _mock_predict (a seed from the batch), then draws
numpy_used_by_ranker(seed, draws) ==
    /\ np_random' = [seed |-> seed, draws |-> draws]
    /\ UNCHANGED <<place_vars, index_vars, call_vars, rank_vars, encode_log, hash_seed,
                   server_vars>>

EmbedInit ==
    /\ search_results = <<>>
    /\ promotions_arg = <<>>
    /\ injected_results = <<>>
    /\ place_pc = "input"
    /\ IndexIdle
    /\ RankIdle
    /\ np_random = [seed |-> 0, draws |-> 0]
    /\ encode_log = {}
    /\ hash_seed \in HashSeeds
    /\ ServerIdle

EmbedNext ==
    \/ \E texts \in TextBatches : encode_mock(texts)
    \/ \E seed \in {42, 7}, draws \in 1..2 : numpy_used_by_ranker(seed, draws)

EmbedSpec == EmbedInit /\ [][EmbedNext]_vars

(***************************************************************************)
(* The server: mcp_server/main.py                                          *)
(*                                                                         *)
(* Every tool is an async handler on one event loop.  Several requests may *)
(* be in flight at once; the loop takes them in any order.  The bodies of  *)
(* search_promotions_tool and rank_promotions_tool hold no await, so the   *)
(* loop runs each of them from its first statement to its return before it *)
(* takes another request.                                                  *)
(***************************************************************************)
MaxRequests == 3

\* A request has arrived and waits for the loop
Receive(kind) ==
    /\ Len(requests) < MaxRequests
    /\ requests' = Append(requests, [kind |-> kind, pc |-> "pending"])
    /\ UNCHANGED <<place_vars, index_vars, call_vars, rank_vars, embed_vars, init_counts>>

\* The loop runs the handler search_promotions of request r
RunSearch(r, query, user_profile) ==
    /\ requests[r] = [kind |-> "search", pc |-> "pending"]
    /\ search_promotions_tool(query, user_profile, DefaultMaxResults)
    /\ requests' = [requests EXCEPT ![r].pc = "done"]

\* The loop runs the handler rank_promotions of request r
RunRank(r, candidates, user_profile) ==
    /\ requests[r] = [kind |-> "rank", pc |-> "pending"]
    /\ rank_promotions_tool(candidates, user_profile)
    /\ candidates_arg' = candidates
    /\ rank_pc' = "done"
    /\ requests' = [requests EXCEPT ![r].pc = "done"]

ServerInit ==
    /\ search_results = <<>>
    /\ promotions_arg = <<>>
    /\ injected_results = <<>>
    /\ place_pc = "input"
    /\ data_file \in DataFiles
    /\ index_created = FALSE
    /\ promotions = <<>>
    /\ embeddings = NoneValue
    /\ index_built = FALSE
    /\ cache_file \in StartCaches
    /\ last_call = [op |-> "none"]
    /\ search_sims = <<>>
    /\ search_out = <<>>
    /\ tool_results = <<>>
    /\ candidates_arg = <<>>
    /\ rank_pc = "input"
    /\ rank_env \in RankEnvs
    /\ ranker = NoneValue
    /\ rank_profile = NoneValue
    /\ ranked_promotions = <<>>
    /\ rank_order = <<>>
    /\ rank_path = "none"
    /\ EmbedIdle
    /\ ServerIdle

ServerNext ==
    \/ \E kind \in {"search", "rank"} : Receive(kind)
    \/ \E r \in 1..Len(requests), user_profile \in {EmptyDict, NoneValue} :
           RunSearch(r, <<"vpn">>, user_profile)
    \/ \E r \in 1..Len(requests), candidates \in {<<>>, <<RecordA, RecordC>>} :
           RunRank(r, candidates, EmptyDict)

ServerSpec == ServerInit /\ [][ServerNext]_vars

(***************************************************************************)
(* The pipeline search -> rank -> place of one request, as the demo agent  *)
(* and the integration test drive it: agents/demo_agent.py,                *)
(* tests/test_tools.py                                                     *)
(***************************************************************************)
\* The profiles the pipeline is driven with
PipelineProfiles == Profiles \cup {NullInterests}

\* The organic results of the integration test (3) and of the demo (8)
PipelineSearchResults ==
    { [i \in 1..3 |-> <<"cloud", "hosting">>],
      [i \in 1..8 |-> IF i = 4 THEN <<"office">> ELSE <<"cloud", "hosting">>] }

RECURSIVE UniquePromotions(_, _)
\* The loop that drops the results whose id was seen before
UniquePromotions(all_promotions, seen_ids) ==
    IF all_promotions = <<>> THEN <<>>
    ELSE LET promo == Head(all_promotions)
         IN  IF promo.id \in seen_ids
             THEN UniquePromotions(Tail(all_promotions), seen_ids)
             ELSE <<promo>> \o UniquePromotions(Tail(all_promotions), seen_ids \cup {promo.id})

TopCount == 3

\* The details of the top ranked promotions, looked up by id
TopPromotions(unique_promotions, ranked) ==
    LET top == Slice(ranked, 0, Min2(TopCount, Len(ranked)))
        known == SelectSeq(top, LAMBDA e :
                     \E k \in 1..Len(unique_promotions) : unique_promotions[k].id = e.id)
        promotion_lookup(id) ==
            unique_promotions[CHOOSE k \in 1..Len(unique_promotions) :
                                 /\ unique_promotions[k].id = id
                                 /\ \A j \in (k + 1)..Len(unique_promotions) :
                                        unique_promotions[j].id # id]
    IN  [i \in 1..Len(known) |->
            ("rank_score" :> known[i].score) @@ promotion_lookup(known[i].id)]

\* Step 2: the search boundary operation on the query and the profile
PipelineSearch(query, user_profile) ==
    /\ last_call.op = "none"
    /\ search_promotions_tool(query, user_profile, DefaultMaxResults)
    /\ UNCHANGED requests

\* Step 3: the rank boundary operation on the results of the search
PipelineRank ==
    /\ last_call.op = "search_promotions_tool"
    /\ rank_pc = "input"
    /\ \E unique_promotions \in {UniquePromotions(tool_results, {})} :
           /\ rank_promotions_tool(unique_promotions, last_call.user_profile)
           /\ candidates_arg' = unique_promotions
    /\ rank_pc' = "done"
    /\ UNCHANGED requests

\* The driver picks the top promotions and the organic results for step 4
PipelineTop(mock_search_results) ==
    /\ rank_pc = "done"
    /\ place_pc = "input"
    /\ search_results = <<>>
    /\ search_results' = mock_search_results
    /\ promotions_arg' = TopPromotions(candidates_arg, ranked_promotions)
    /\ UNCHANGED <<injected_results, place_pc, index_vars, call_vars, rank_vars,
                   embed_vars, server_vars>>

\* Step 4: the place boundary operation
PipelinePlace ==
    /\ rank_pc = "done"
    /\ search_results # <<>>
    /\ optimize_ad_slots_tool

PipelineInit ==
    /\ search_results = <<>>
    /\ promotions_arg = <<>>
    /\ injected_results = <<>>
    /\ place_pc = "input"
    /\ data_file \in DataFiles
    /\ index_created = FALSE
    /\ promotions = <<>>
    /\ embeddings = NoneValue
    /\ index_built = FALSE
    /\ cache_file \in StartCaches
    /\ last_call = [op |-> "none"]
    /\ search_sims = <<>>
    /\ search_out = <<>>
    /\ tool_results = <<>>
    /\ candidates_arg = <<>>
    /\ rank_pc = "input"
    /\ rank_env \in RankEnvs
    /\ ranker = NoneValue
    /\ rank_profile = NoneValue
    /\ ranked_promotions = <<>>
    /\ rank_order = <<>>
    /\ rank_path = "none"
    /\ EmbedIdle
    /\ ServerIdle

PipelineNext ==
    \/ \E query \in Queries, user_profile \in PipelineProfiles :
           PipelineSearch(query, user_profile)
    \/ PipelineRank
    \/ \E mock_search_results \in PipelineSearchResults : PipelineTop(mock_search_results)
    \/ PipelinePlace

PipelineSpec == PipelineInit /\ [][PipelineNext]_vars

Init == PlaceInit \/ IndexInit \/ RankInit \/ EmbedInit \/ ServerInit \/ PipelineInit

Next == PlaceNext \/ IndexNext \/ RankNext \/ EmbedNext \/ ServerNext \/ PipelineNext

Spec == Init /\ [][Next]_vars

(***************************************************************************)
(* Placement claims.  They read the request (search_results,               *)
(* promotions_arg) and the response (injected_results) once the tool ran.  *)
(***************************************************************************)
SponsoredAt(out) == {k \in 1..Len(out) : out[k].tag = "sponsored"}

SponsoredCount(out) == Cardinality(SponsoredAt(out))

OrganicBefore(out, k) == Cardinality({j \in 1..(k - 1) : out[j].tag = "organic"})

\* The organic positions p such that an ad stands immediately after organic item p
AdSlots(out) ==
    {OrganicBefore(out, k) : k \in {j \in SponsoredAt(out) : j > 1 /\ out[j - 1].tag = "organic"}}

\* What is left of a response when its sponsored items are deleted
OrganicTexts(out) ==
    LET kept == SelectSeq(out, LAMBDA it : it.tag = "organic")
    IN  [i \in 1..Len(kept) |-> kept[i].text]

Placed == place_pc = "done"

\* C1 as stated: 5 organic results and 2 promotions give 2 sponsored items, after
\* organic positions 2 and 4, and an output of length 7.
C1_TwoAdsInFive ==
    (Placed /\ Len(search_results) = 5 /\ Len(promotions_arg) = 2)
        => /\ SponsoredCount(injected_results) = 2
           /\ AdSlots(injected_results) = {2, 4}
           /\ Len(injected_results) = 7

\* C1 amended: 5 organic results and 2 promotions give exactly 1 sponsored item,
\* immediately after organic position 2, and an output of length 6.
C1_OneAdInFive ==
    (Placed /\ Len(search_results) = 5 /\ Len(promotions_arg) = 2)
        => /\ SponsoredCount(injected_results) = 1
           /\ AdSlots(injected_results) = {2}
           /\ Len(injected_results) = 6

C1_Witness ==
    /\ Placed
    /\ Len(search_results) = 5
    /\ Len(promotions_arg) = 2
    /\ Len(injected_results) = 6

\* C2: the number of sponsored items in the output is at most
\* min(P, 3, floor(L / 3)) for an organic list of length L and P promotions.
C2_AdCountCap ==
    Placed =>
        /\ SponsoredCount(injected_results) <= Len(promotions_arg)
        /\ SponsoredCount(injected_results) <= 3
        /\ SponsoredCount(injected_results) <= Len(search_results) \div 3

C2_Witness ==
    /\ Placed
    /\ Len(promotions_arg) > 3
    /\ SponsoredCount(injected_results) = 3

\* C3: for a non-empty organic list the first item of the output is the first
\* organic item, never a sponsored one.
C3_TopIsOrganic ==
    (Placed /\ search_results # <<>>)
        => /\ injected_results # <<>>
           /\ injected_results[1] = Organic(search_results[1])

C3_Witness ==
    /\ Placed
    /\ SponsoredCount(injected_results) >= 1
    /\ injected_results[1].tag = "organic"

\* C4: deleting the sponsored items from the output gives back the organic list,
\* so the output has length L + (sponsored items) and is never shorter than L.
C4_OrganicPreserved ==
    Placed =>
        /\ OrganicTexts(injected_results) = search_results
        /\ Len(injected_results) = Len(search_results) + SponsoredCount(injected_results)
        /\ Len(injected_results) >= Len(search_results)

C4_Witness ==
    /\ Placed
    /\ SponsoredCount(injected_results) >= 2
    /\ Cardinality(Marked(search_results)) >= 1

\* C5: with an empty promotion list the output is the organic list, unchanged.
C5_NoPromotionsIdentity ==
    (Placed /\ promotions_arg = <<>>) => injected_results = PassThrough(search_results)

C5_Witness ==
    /\ Placed
    /\ promotions_arg = <<>>
    /\ Len(search_results) >= 3

\* C6: an organic list of fewer than 2 items comes back unchanged whatever the
\* promotions are: empty gives empty, one item gives that item and no ad.
C6_TooFewOrganic ==
    (Placed /\ Len(search_results) < 2)
        => /\ injected_results = PassThrough(search_results)
           /\ SponsoredCount(injected_results) = 0

C6_Witness ==
    /\ Placed
    /\ Len(search_results) = 1
    /\ Len(promotions_arg) >= 1
    /\ Len(injected_results) = 1

\* C7: 10 organic results and 3 promotions give sponsored items immediately after
\* organic positions 2, 5 and 8, and an output of length 13.
C7_ThreeAdsInTen ==
    (Placed /\ Len(search_results) = 10 /\ Len(promotions_arg) = 3)
        => /\ SponsoredCount(injected_results) = 3
           /\ AdSlots(injected_results) = {2, 5, 8}
           /\ Len(injected_results) = 13

C7_Witness ==
    /\ Placed
    /\ Len(search_results) = 10
    /\ Len(promotions_arg) = 3
    /\ Len(injected_results) = 13

(***************************************************************************)
(* Search claims.  They read the index and the outcome of the last call    *)
(* when that call was a search.                                            *)
(***************************************************************************)
Searched == last_call.op \in {"search", "search_promotions_tool"}

NonIncreasing(results) ==
    \A i \in 1..Len(results), j \in 1..Len(results) :
        i < j => results[i].score >= results[j].score

\* C8: a search over an index of N records with a given topK (a count, so
\* topK >= 0) returns at most min(topK, N) results, in non-increasing order of
\* score; the same holds of the response of the boundary operation.
C8_SearchBoundedSorted ==
    Searched =>
        /\ Len(search_out) <= Min2(last_call.top_k, Len(promotions))
        /\ NonIncreasing(search_out)
        /\ last_call.op = "search_promotions_tool"
               => /\ Len(tool_results) <= Min2(last_call.top_k, Len(promotions))
                  /\ NonIncreasing(tool_results)

C8_Witness ==
    /\ last_call.op = "search"
    /\ Len(promotions) > last_call.top_k
    /\ Len(search_out) = 2
    /\ search_out[1].score > search_out[2].score

\* C9 as stated: records with equal scores appear in the result in the order in
\* which they were added to the index, the earlier-added first.
C9_TiesInInsertionOrder ==
    Searched =>
        \A i \in 1..Len(search_sims), j \in 1..Len(search_sims) :
            (i < j /\ search_sims[i][1] = search_sims[j][1])
                => search_sims[i][2] < search_sims[j][2]

\* C10: the score search returns after the profile boost is at most 1.0,
\* however many interest tags overlap.
C10_BoostCapped ==
    (Searched /\ Truthy(last_call.user_profile))
        => /\ \A k \in 1..Len(search_out) : search_out[k].score <= 100
           /\ last_call.op = "search_promotions_tool"
                  => \A k \in 1..Len(tool_results) : tool_results[k].score <= 100

C10_Witness ==
    /\ last_call.op = "search"
    /\ Truthy(last_call.user_profile)
    /\ \E k \in 1..Len(search_out) :
           /\ search_out[k].score = 100
           /\ Cardinality(Get(last_call.user_profile, "interests", {})
                              \cap Get(search_out[k], "categories", {})) >= 2

(***************************************************************************)
(* Claims about ranking (RankSpec).                                        *)
(***************************************************************************)
\* The rank tool has answered the request held in candidates_arg
Ranked == rank_pc = "done"

ScoresWithin(entries, lo, hi) ==
    \A k \in 1..Len(entries) : lo <= entries[k].score /\ entries[k].score <= hi

\* C11: for every candidate list (the empty one too) and every profile, rank
\* returns exactly len(candidates) entries, and the ids of the entries are the
\* ids of the input candidates, each input candidate covered exactly once.
C11_RankTotality ==
    Ranked =>
        LET n == Len(candidates_arg)
        IN  /\ Len(ranked_promotions) = n
            /\ Len(rank_order) = n
            /\ { rank_order[j] : j \in 1..n } = 1..n
            /\ \A j \in 1..n :
                   ranked_promotions[j].id = CandidateId(candidates_arg, rank_order[j])
            /\ \A k \in 1..n :
                   Cardinality({ j \in 1..n : ranked_promotions[j].id
                                                 = CandidateId(candidates_arg, k) })
                       = Cardinality({ j \in 1..n : CandidateId(candidates_arg, j)
                                                        = CandidateId(candidates_arg, k) })

\* Three candidates, one of them without an id, scored and put in another order
C11_Witness ==
    /\ Ranked
    /\ rank_path = "mock"
    /\ Len(candidates_arg) = MaxCandidates
    /\ \E k \in 1..Len(candidates_arg) : "id" \notin DOMAIN candidates_arg[k]
    /\ \E j \in 1..Len(rank_order) : rank_order[j] # j

\* C12: the output of rank is sorted by descending score, and candidates with
\* equal scores keep their relative input order.
C12_SortedStable ==
    Ranked =>
        \A i, j \in 1..Len(ranked_promotions) :
            i < j =>
                /\ ranked_promotions[i].score >= ranked_promotions[j].score
                /\ ranked_promotions[i].score = ranked_promotions[j].score
                       => rank_order[i] < rank_order[j]

\* The fallback scorer gave two candidates the same score, and the sort moved
\* a candidate from its input position
C12_Witness ==
    /\ Ranked
    /\ rank_path = "mock"
    /\ \E i, j \in 1..Len(ranked_promotions) :
           /\ i < j
           /\ ranked_promotions[i].score = ranked_promotions[j].score
    /\ \E j \in 1..Len(rank_order) : rank_order[j] # j

\* C13: every score of a fallback path (the deterministic fallback scorer, or
\* the default score used when the batch fails) lies in [0.01, 0.5].
C13_FallbackScoreBounds ==
    (Ranked /\ rank_path \in {"mock", "fallback"})
        => ScoresWithin(ranked_promotions, ScoreMin, ScoreMax)

\* The fallback scorer cut one score to 0.5 and left another below it
C13_Witness ==
    /\ Ranked
    /\ rank_path = "mock"
    /\ \E k \in 1..Len(ranked_promotions) : ranked_promotions[k].score = ScoreMax
    /\ \E k \in 1..Len(ranked_promotions) : ranked_promotions[k].score < ScoreMax

\* C14: when feature extraction or scoring fails for the batch, the rank tool
\* does not pass the failure on: it returns one entry per input candidate, in
\* input order, each with that candidate's own id and the default score 0.1.
C14_BatchFailureFallback ==
    (Ranked /\ rank_path = "fallback") =>
        ranked_promotions =
            [k \in 1..Len(candidates_arg) |->
                [id |-> CandidateId(candidates_arg, k), score |-> DefaultScore]]

\* The booster's predict raised on a batch of three with and without ids
C14_Witness ==
    /\ Ranked
    /\ rank_path = "fallback"
    /\ rank_profile # NoneValue
    /\ Len(candidates_arg) = MaxCandidates
    /\ \E k \in 1..Len(candidates_arg) : "id" \in DOMAIN candidates_arg[k]
    /\ \E k \in 1..Len(candidates_arg) : "id" \notin DOMAIN candidates_arg[k]

\* C15: when the learned scorer is used, every score rank returns is clipped
\* to [0.01, 0.5], whatever the model's predict returns.
C15_LearnedScoresClipped ==
    (Ranked /\ rank_path = "learned")
        => ScoresWithin(ranked_promotions, ScoreMin, ScoreMax)

(***************************************************************************)
(* Claims about the mock embedder (EmbedSpec).                             *)
(***************************************************************************)
\* C16: in mock mode, encoding the same text twice, in any order relative to
\* other encode calls, yields identical unit-norm vectors of the fixed
\* dimension; the vector depends only on the lower-cased text.  Within one
\* process: every two embeddings returned for texts with the same lower-cased
\* form are equal, of norm 1 and of dimension 384, and are the vector the
\* index uses for that text.
C16_MockEncodeDeterministic ==
    \A e1, e2 \in encode_log :
        /\ e1.embedding.norm = 100
        /\ e1.embedding.dim = EmbeddingDim
        /\ LowerText(e1.text) = LowerText(e2.text) => e1.embedding = e2.embedding
        /\ hash_seed = 0 => e1.embedding.dir = encode(<<e1.text>>)[1]

\* A text and its upper-case form were both encoded, in calls between which
\* the generator was reseeded by other texts and by other code
C16_Witness ==
    /\ \E e1, e2 \in encode_log :
           e1.text # e2.text /\ LowerText(e1.text) = LowerText(e2.text)
    /\ Cardinality(encode_log) = Cardinality(EmbedTexts)
    /\ np_random.seed = 42

(***************************************************************************)
(* Claims about lazy initialisation and the shared index.                  *)
(***************************************************************************)
\* C17: after lazy initialisation of the global index, for every state of the
\* corpus source (missing, unreadable, malformed or present), the index holds
\* at least one record.
C17_IndexNeverEmpty == index_created => Len(promotions) >= 1

\* C18: under concurrent first use by several requests, the global embedder,
\* promotion index and ranker are each constructed at most once and the corpus
\* is loaded into the index at most once: no second instance replaces the
\* first and no record is ingested twice.
C18_InitializedOnce ==
    /\ init_counts.embedder <= 1
    /\ init_counts.index <= 1
    /\ init_counts.ranker <= 1
    /\ init_counts.loads <= 1
    /\ index_created <=> init_counts.index = 1
    /\ (ranker # NoneValue) <=> init_counts.ranker = 1
    /\ index_created => promotions = LoadedCorpus(data_file)

\* Three requests were in flight together; the one that came first still
\* waits, and the two that came later have used the index and the ranker
C18_Witness ==
    /\ Len(requests) = MaxRequests
    /\ requests[1] = [kind |-> "search", pc |-> "pending"]
    /\ requests[2] = [kind |-> "search", pc |-> "done"]
    /\ requests[3] = [kind |-> "rank", pc |-> "done"]
    /\ init_counts = [embedder |-> 1, index |-> 1, loads |-> 1, ranker |-> 1]

\* The texts build_index encodes for the records held
RecordTexts ==
    [i \in 1..Len(promotions) |->
        << Get(promotions[i], "title", ""), Get(promotions[i], "description", "") >>]

\* The last call on the index was a search that computed similarities
SearchComputed ==
    /\ last_call.op \in {"search", "search_promotions_tool"}
    /\ promotions # <<>>
    /\ embeddings # NoneValue

\* C19 as stated: when searches interleave with add and build on the shared
\* index, the matrix and the record list a search reads are aligned 1:1 (same
\* length, row i is the embedding of record i), and a build never marks the
\* index built with fewer rows than records.
C19_SearchReadsEmbeddingsOfRecords ==
    /\ SearchComputed =>
           /\ Len(embeddings.rows) = Len(promotions)
           /\ embeddings.rows = encode(RecordTexts)
    /\ (last_call.op = "build_index" /\ index_built)
           => Len(embeddings.rows) >= Len(promotions)

\* C19, amended: the matrix and the record list a search reads have the same
\* length, and the matrix is the one a build made for that record list: its
\* rows are the embeddings of the records, or the rows of a cache file of the
\* same length taken as they are; a build never marks the index built
\* with fewer rows than records.
C19_SearchReadsBuiltMatrix ==
    /\ SearchComputed =>
           /\ index_built
           /\ Len(embeddings.rows) = Len(promotions)
           /\ \/ embeddings.rows = encode(RecordTexts)
              \/ embeddings = cache_file
    /\ (last_call.op = "build_index" /\ index_built)
           => Len(embeddings.rows) >= Len(promotions)

\* A search over two records that read a matrix encoded from those records
\* and returned both
C19_Witness ==
    /\ last_call.op = "search"
    /\ SearchComputed
    /\ Len(promotions) = MaxRecords
    /\ Len(search_out) = MaxRecords
    /\ embeddings.rows = encode(RecordTexts)

\* C20: add appends and invalidates the built index: after any sequence of
\* add, build and search, whenever the index is marked built the matrix has
\* exactly one row per record held, so every record added before a search is
\* eligible in that search.
C20_BuiltIndexCoversRecords ==
    /\ index_built =>
           /\ embeddings # NoneValue
           /\ Len(embeddings.rows) = Len(promotions)
    /\ (SearchComputed /\ last_call.top_k >= Len(promotions)) =>
           /\ Len(search_out) = Len(promotions)
           /\ { search_sims[k][2] + 1 : k \in 1..Len(search_sims) } = 1..Len(promotions)

\* Two records, the second added after the first was indexed, both returned
C20_Witness ==
    /\ last_call.op = "search"
    /\ index_built
    /\ Len(promotions) = MaxRecords
    /\ data_file = [state |-> "present", lines |-> <<RecordC>>]
    /\ Len(search_out) = MaxRecords

(***************************************************************************)
(* Claims about the cache rule of build_index and about the frame of       *)
(* search, checked under IndexSpec                                         *)
(***************************************************************************)
\* A step of build_index(force_rebuild) on the created index
BuildStep == last_call'.op = "build_index"

\* The cache holds a matrix with one row per record
CacheFits == cache_file # NoneValue /\ Len(cache_file.rows) = Len(promotions)

\* The step takes the cached matrix as it is and writes nothing
TakesCache ==
    /\ embeddings' = cache_file
    /\ cache_file' = cache_file
    /\ index_built'

\* The step encodes every record and overwrites the cache with the new matrix
EncodesAll ==
    /\ embeddings' = Matrix(encode(RecordTexts))
    /\ cache_file' = embeddings'
    /\ index_built'

\* C21 as stated: a non-forced build of an unbuilt index takes a cached matrix of
\* the right row count as it is; otherwise, and on every forced rebuild, every
\* record is encoded and the cache is overwritten with the new matrix.
C21_CacheRuleEveryIndex ==
    [][ (BuildStep /\ (last_call'.force_rebuild \/ ~index_built)) =>
            IF ~last_call'.force_rebuild /\ CacheFits THEN TakesCache ELSE EncodesAll ]_vars

\* C21, amended: the rule holds for an index that holds at least one record; a
\* build of an index without records, forced or not, encodes nothing, leaves the
\* cache file as it was and leaves the index unbuilt.
C21_CacheRule ==
    [][ (BuildStep /\ (last_call'.force_rebuild \/ ~index_built)) =>
            IF promotions = <<>>
            THEN UNCHANGED <<embeddings, cache_file, index_built>>
            ELSE IF ~last_call'.force_rebuild /\ CacheFits THEN TakesCache
            ELSE EncodesAll ]_vars

\* A non-forced build took a cached matrix that is not the encoding of the records
C21_Witness ==
    /\ last_call.op = "build_index"
    /\ ~last_call.force_rebuild
    /\ index_built
    /\ promotions # <<>>
    /\ embeddings = cache_file
    /\ embeddings # Matrix(encode(RecordTexts))

(***************************************************************************)
(* Placement claims about the order of the promotions, the marker and the  *)
(* slots, checked under PlaceSpec                                          *)
(***************************************************************************)
\* How many sponsored items stand at or above index j of the output
SponsoredUpTo(out, j) == Cardinality({m \in SponsoredAt(out) : m <= j})

\* C23: the k-th sponsored item of the output, counted from the top, is the ad
\* rendered from the k-th promotion of the input list (at the place in the organic
\* list where it stands), so only the first adCount promotions are used.
C23_PromotionsInInputOrder ==
    Placed =>
        \A j \in SponsoredAt(injected_results) :
            /\ SponsoredUpTo(injected_results, j) <= Len(promotions_arg)
            /\ injected_results[j].text =
                   _generate_ad_copy(promotions_arg[SponsoredUpTo(injected_results, j)],
                                     search_results,
                                     OrganicBefore(injected_results, j) - 1)

C23_Witness ==
    /\ Placed
    /\ SponsoredCount(injected_results) = 2
    /\ Len(promotions_arg) = 4
    /\ promotions_arg[1] # promotions_arg[2]
    /\ promotions_arg[3] # promotions_arg[1]

\* The string holds the sponsorship marker
CarriesMarker(text) == \E i \in 1..Len(text) : text[i] = SponsoredMarker

\* C24 as stated: every rendered ad begins with the marker [SPONSORED], and an
\* item of the output carries the marker exactly when it is a sponsored item.
C24_MarkerIffSponsored ==
    Placed =>
        \A j \in 1..Len(injected_results) :
            /\ injected_results[j].tag = "sponsored"
                   => injected_results[j].text[1] = SponsoredMarker
            /\ CarriesMarker(injected_results[j].text)
                   <=> injected_results[j].tag = "sponsored"

\* The first min(n, 3) elements of [2, 5, 8], as a set
FirstSlots(n) == {<<2, 5, 8>>[k] : k \in 1..Min2(n, 3)}

\* C25: for L >= 2 organic results and P promotions the output holds exactly
\* adCount = min(P, 3, L div 3) sponsored items, each immediately after an organic
\* item, at the organic positions that are the first adCount elements of
\* [2, 5, 8]; the position filter never leaves fewer than adCount positions, and
\* position 4 is never used.
C25_AdCountAndSlots ==
    (Placed /\ Len(search_results) >= 2) =>
        LET adCount == Min2(Min2(Len(promotions_arg), 3), Len(search_results) \div 3)
        IN  /\ SponsoredCount(injected_results) = adCount
            /\ AdSlots(injected_results) = FirstSlots(adCount)
            /\ Cardinality(AdSlots(injected_results)) = adCount
            /\ Len(_calculate_insertion_positions(Len(search_results), adCount)) = adCount
            /\ 4 \notin AdSlots(injected_results)

C25_Witness ==
    /\ Placed
    /\ Len(search_results) \in 4..5
    /\ Len(promotions_arg) >= 3
    /\ AdSlots(injected_results) = {2}

\* C26: every sponsored item of an output stands between two organic items: no
\* ad is first, none is last, and no two ads are adjacent.
C26_AdsBetweenOrganic ==
    Placed =>
        \A j \in SponsoredAt(injected_results) :
            /\ j > 1
            /\ injected_results[j - 1].tag = "organic"
            /\ j < Len(injected_results)
            /\ injected_results[j + 1].tag = "organic"

C26_Witness ==
    /\ Placed
    /\ Len(search_results) = 9
    /\ SponsoredCount(injected_results) = 3
    /\ injected_results[Len(injected_results) - 1].tag = "sponsored"

(***************************************************************************)
(* Claims about the profile boost and the frame of search (IndexSpec)      *)
(***************************************************************************)
\* The cosine similarity of the last query and the row (0-based) of the matrix
BaseScore(row) == similarity(encode(<<last_call.query>>)[1], embeddings.rows[row + 1])

\* The budget term b of the boost, in hundredths
BudgetTerm(budget_level, price_tier) ==
    IF budget_level = price_tier THEN 5
    ELSE IF <<budget_level, price_tier>> \in {<<"high", "medium">>, <<"medium", "low">>} THEN 2
    ELSE 0

\* min(base + 0.1 * |interests /\ categories| + b, 1.0), in hundredths
BoostedScore(base, record, profile) ==
    Min2(base
           + 10 * Cardinality(Get(profile, "interests", {}) \cap Get(record, "categories", {}))
           + BudgetTerm(Get(profile, "budget_level", "medium"),
                        Get(record, "price_tier", "medium")),
         100)

\* C27: with a profile, the score search gives a record is
\* min(base + 0.1 * |interests /\ categories| + b, 1.0), with b = 0.05 when
\* budget_level equals price_tier, 0.02 for (high, medium) and (medium, low), and 0
\* otherwise; nothing clamps it below, so it is never below the base score
\* unless the cap at 1.0 applies.
C27_BoostFormula ==
    (SearchComputed /\ Truthy(last_call.user_profile)) =>
        \A k \in 1..Len(search_sims) :
            LET row == search_sims[k][2]
                base == BaseScore(row)
            IN  /\ search_sims[k][1] =
                       BoostedScore(base, promotions[row + 1], last_call.user_profile)
                /\ search_out[k].score = search_sims[k][1]
                /\ search_sims[k][1] >= base \/ search_sims[k][1] = 100

\* A search with a profile gave one record a partial budget term and left
\* another record's boosted score below zero
C27_Witness ==
    /\ SearchComputed
    /\ Truthy(last_call.user_profile)
    /\ \E k \in 1..Len(search_sims) :
           /\ search_sims[k][1] < 0
           /\ search_sims[k][1] > BaseScore(search_sims[k][2])
    /\ \E k \in 1..Len(search_sims) :
           BudgetTerm(Get(last_call.user_profile, "budget_level", "medium"),
                      Get(promotions[search_sims[k][2] + 1], "price_tier", "medium")) = 2

\* A step of search, through the index or through the boundary operation
SearchStep == last_call'.op \in {"search", "search_promotions_tool"}

\* C30: a search on a built index leaves the record list (the same records, the
\* same fields, the same order: no score is written into a stored record) and the
\* embedding matrix as they were.
C30_SearchLeavesIndex ==
    [][ (SearchStep /\ index_created /\ index_built) =>
            /\ promotions' = promotions
            /\ embeddings' = embeddings
            /\ \A i \in 1..Len(promotions') : "score" \notin DOMAIN promotions'[i] ]_vars

\* A search returned scored results and the stored records carry no score
C30_Witness ==
    /\ Searched
    /\ index_built
    /\ Len(search_out) >= 2
    /\ \A k \in 1..Len(search_out) : "score" \in DOMAIN search_out[k]
    /\ \A i \in 1..Len(promotions) : "score" \notin DOMAIN promotions[i]

(***************************************************************************)
(* A claim about the fallback scorer (RankSpec)                            *)
(***************************************************************************)
\* The score the fallback scorer gives the candidate when it is ranked alone
ScoreAlone(candidate, user_profile) ==
    _mock_predict(<< _extract_features(candidate, user_profile) >>)[1]

\* C29 as stated: under the fallback scorer the score of a candidate depends on
\* its own six features only, so in any batch and at any position a candidate
\* gets the score it gets when it is ranked alone with the same profile.
C29_ScoreOfOwnFeaturesOnly ==
    (Ranked /\ rank_path = "mock") =>
        \A j \in 1..Len(ranked_promotions) :
            ranked_promotions[j].score
                = ScoreAlone(candidates_arg[rank_order[j]], rank_profile)

(***************************************************************************)
(* Claims about the three boundary operations together (PipelineSpec)      *)
(***************************************************************************)
\* C28 as stated: when the candidates of rank are the results the search boundary
\* operation returned, the six features extracted for a candidate are the six
\* features of the stored record it came from, so the record's categories,
\* price_tier and base_ctr reach the ranking stage.
C28_FeaturesOfStoredRecord ==
    (Ranked /\ last_call.op = "search_promotions_tool" /\ candidates_arg = tool_results
            /\ rank_path \in {"mock", "learned"}) =>
        \A k \in 1..Len(candidates_arg) :
            _extract_features(candidates_arg[k], rank_profile)
                = _extract_features(promotions[search_sims[k][2] + 1], rank_profile)

\* The response of search: a list of dicts with the five fields of a result
ValidResults ==
    \A k \in 1..Len(tool_results) :
        DOMAIN tool_results[k] = {"id", "title", "description", "link", "score"}

\* The response of rank: one {id, score} per candidate
ValidRanked ==
    /\ Len(ranked_promotions) = Len(candidates_arg)
    /\ \A k \in 1..Len(ranked_promotions) : DOMAIN ranked_promotions[k] = {"id", "score"}

\* The response of place: the organic strings, with rendered ads among them
ValidInjected ==
    /\ Len(injected_results) >= Len(search_results)
    /\ \A k \in 1..Len(injected_results) :
           injected_results[k].tag \in {"organic", "sponsored"}

SearchFailureCaught ==
    /\ last_call.op = "search_promotions_tool"
    /\ last_call.caught
    /\ promotions # <<>>

====
